---- MODULE Spec2Model ----
(***************************************************************************)
(* RemoteConnection of renet (src/remote_connection.rs): the reliability   *)
(* layer of one connection over an unreliable datagram transport.          *)
(*                                                                         *)
(* The connection is single-threaded: every public operation runs to       *)
(* completion, so each operation is one action.  SequenceBuffer, Timer,    *)
(* the fragment assembler, the packet codec, the security service and the  *)
(* channels live in other files of the crate; they are modelled from the   *)
(* specification's description of them.  The floating point estimators of  *)
(* NetworkInfo (rtt, bandwidth, loss smoothing) and the Instant fields of   *)
(* SentPacket / ReceivedPacket that only feed them are left out: the model  *)
(* keeps the integer quantities they are computed from.                     *)
(***************************************************************************)
EXTENDS Integers, Sequences, FiniteSets, TLC

(***************************************************************************)
(* Bounds of the exploration.                                              *)
(***************************************************************************)
\* sequence numbers one run may allocate (generate_packets past its size check)
MaxSends == 2
\* inbound datagrams one run may process
MaxRecv == 2
\* clock ticks one run may see
MaxTime == 4
\* messages the application may queue with send_message in one run
MaxMsgs == 2

(***************************************************************************)
(* Program constants and the configuration the model runs under.           *)
(***************************************************************************)
\* sequence: u16
SeqMod == 65536
\* for i in 0..32 / ack_bits: u32
AckBitsWidth == 32

\* ConnectionConfig (small values of the configurable fields)
max_packet_size == 5
sent_packets_buffer_size == 8
received_packets_buffer_size == 8
timeout_duration == 3
heartbeat_time == 2
\* FragmentConfig
fragment_above == 3
fragment_size == 2
max_fragments == 2
reassembly_buffer_size == 4

(***************************************************************************)
(* 16-bit wrapping sequence arithmetic.                                    *)
(***************************************************************************)
WrappingAdd(a, i) == (a + i) % SeqMod

WrappingSub(a, i) == (a + SeqMod - (i % SeqMod)) % SeqMod

\* a is newer than b iff (a - b) mod 2^16 lies in (0, 2^15)
SequenceGreaterThan(a, b) ==
    /\ a # b
    /\ WrappingSub(a, b) < SeqMod \div 2

SequenceLessThan(a, b) == SequenceGreaterThan(b, a)

Min(a, b) == IF a < b THEN a ELSE b

(***************************************************************************)
(* SequenceBuffer<T>: a ring of N slots, slot index = seq mod N.  A slot   *)
(* is <<>> (empty) or <<[seq |-> s, value |-> v]>>.  `sequence` is the     *)
(* most recently inserted sequence (the head).                             *)
(***************************************************************************)
WithCapacity(n) == [sequence |-> 0, slots |-> [i \in 1..n |-> <<>>]]

BufIndex(buf, seq) == (seq % Len(buf.slots)) + 1

BufGet(buf, seq) ==
    LET slot == buf.slots[BufIndex(buf, seq)]
    IN  IF slot # <<>> /\ slot[1].seq = seq THEN <<slot[1].value>> ELSE <<>>

BufExists(buf, seq) == BufGet(buf, seq) # <<>>

\* write through the reference get_mut returned (the entry is present)
BufSet(buf, seq, v) ==
    [buf EXCEPT !.slots[BufIndex(buf, seq)] = <<[seq |-> seq, value |-> v]>>]

\* clear the slots of the sequences in (head, seq]
BufRemoveEntries(buf, seq) ==
    LET n == Len(buf.slots)
        d == WrappingSub(seq, buf.sequence)
        cleared == { BufIndex(buf, WrappingAdd(buf.sequence, k)) : k \in 1..Min(d, n) }
    IN  [buf EXCEPT !.slots = [i \in 1..n |->
                                  IF i \in cleared THEN <<>> ELSE buf.slots[i]]]

BufInsert(buf, seq, v) ==
    IF SequenceLessThan(seq, WrappingSub(buf.sequence, Len(buf.slots)))
    THEN buf
    ELSE LET slid == IF SequenceGreaterThan(seq, buf.sequence)
                     THEN [BufRemoveEntries(buf, seq) EXCEPT !.sequence = seq]
                     ELSE buf
         IN  BufSet(slid, seq, v)

BufSequence(buf) == buf.sequence

\* bit i of the mask is set iff get(head - i) is present, i = 0..31
RECURSIVE AckBitsFrom(_, _)
AckBitsFrom(buf, i) ==
    IF i = AckBitsWidth THEN 0
    ELSE (IF BufExists(buf, WrappingSub(buf.sequence, i)) THEN 1 ELSE 0)
         + 2 * AckBitsFrom(buf, i + 1)

AckBits(buf) == [ack |-> buf.sequence, ack_bits |-> AckBitsFrom(buf, 0)]

(***************************************************************************)
(* Timer: a duration and a deadline.                                       *)
(***************************************************************************)
TimerNew(duration, t) == [duration |-> duration, deadline |-> t + duration]

TimerReset(timer, t) == [timer EXCEPT !.deadline = t + timer.duration]

TimerIsFinished(timer, t) == t >= timer.deadline

BufRemove(buf, seq) ==
    IF BufExists(buf, seq)
    THEN [buf EXCEPT !.slots[BufIndex(buf, seq)] = <<>>]
    ELSE buf

(***************************************************************************)
(* Packet schema.  A packet is one record type with a `type` tag; the     *)
(* fields a variant does not have hold a default.  Payloads are byte       *)
(* strings (sequences of small naturals).                                  *)
(***************************************************************************)
AckData(ack, ack_bits) == [ack |-> ack, ack_bits |-> ack_bits]

Normal(sequence, ack_data, payload) ==
    [type |-> "Normal", sequence |-> sequence, ack_data |-> ack_data,
     fragment_id |-> 0, num_fragments |-> 0, payload |-> payload, error |-> FALSE]

Fragment(sequence, ack_data, fragment_id, num_fragments, payload) ==
    [type |-> "Fragment", sequence |-> sequence, ack_data |-> ack_data,
     fragment_id |-> fragment_id, num_fragments |-> num_fragments,
     payload |-> payload, error |-> FALSE]

HeartBeat(ack_data) ==
    [type |-> "Heartbeat", sequence |-> 0, ack_data |-> ack_data,
     fragment_id |-> 0, num_fragments |-> 0, payload |-> <<>>, error |-> FALSE]

Connection(error) ==
    [type |-> "Connection", sequence |-> 0, ack_data |-> AckData(0, 0),
     fragment_id |-> 0, num_fragments |-> 0, payload |-> <<>>, error |-> error]

\* length of the serialized packet (fixed-width integers, a length-prefixed
\* byte vector): what bincode::serialize(&packet) returns and what
\* bincode::deserialize consumed
SerializedLen(packet) ==
    CASE packet.type = "Normal"     -> 4 + 2 + 2 + 4 + 8 + Len(packet.payload)
      [] packet.type = "Fragment"   -> 4 + 2 + 2 + 4 + 1 + 1 + 8 + Len(packet.payload)
      [] packet.type = "Heartbeat"  -> 4 + 2 + 4
      [] packet.type = "Connection" -> 4 + 1

(***************************************************************************)
(* Vec<ChannelPacketData> codec: each entry is its channel id, the number  *)
(* of messages and the messages (one byte each).                           *)
(***************************************************************************)
ChannelPacketData(messages, channel_id) ==
    [channel_id |-> channel_id, messages |-> messages]

RECURSIVE SerializeChannelPackets(_)
SerializeChannelPackets(channel_packets) ==
    IF channel_packets = <<>> THEN <<>>
    ELSE LET e == Head(channel_packets)
         IN  <<e.channel_id, Len(e.messages)>> \o e.messages
                 \o SerializeChannelPackets(Tail(channel_packets))

\* [ok |-> whether the bytes decode, value |-> the decoded list]
RECURSIVE DeserializeChannelPackets(_)
DeserializeChannelPackets(bytes) ==
    IF bytes = <<>> THEN [ok |-> TRUE, value |-> <<>>]
    ELSE IF Len(bytes) < 2 \/ Len(bytes) < 2 + bytes[2]
    THEN [ok |-> FALSE, value |-> <<>>]
    ELSE LET n == bytes[2]
             e == ChannelPacketData(SubSeq(bytes, 3, 2 + n), bytes[1])
             rest == DeserializeChannelPackets(SubSeq(bytes, 3 + n, Len(bytes)))
         IN  [ok |-> rest.ok,
              value |-> IF rest.ok THEN <<e>> \o rest.value ELSE <<>>]

(***************************************************************************)
(* Fragment assembler.                                                     *)
(***************************************************************************)
FragmentConfig ==
    [fragment_above |-> fragment_above, fragment_size |-> fragment_size,
     max_fragments |-> max_fragments,
     reassembly_buffer_size |-> reassembly_buffer_size]

NumFragments(len, cfg) == (len + cfg.fragment_size - 1) \div cfg.fragment_size

\* [ok |-> FALSE] is ExceededMaxFragments
build_fragments(payload, sequence, ack_data, cfg) ==
    LET n == NumFragments(Len(payload), cfg)
    IN  IF n > cfg.max_fragments
        THEN [ok |-> FALSE, packets |-> <<>>]
        ELSE [ok |-> TRUE,
              packets |-> [i \in 1..n |->
                  Fragment(sequence, ack_data, i - 1, n,
                           SubSeq(payload, (i - 1) * cfg.fragment_size + 1,
                                  Min(i * cfg.fragment_size, Len(payload))))]]

ReassemblyFragment(num_fragments) ==
    [num_fragments_total |-> num_fragments, received |-> {},
     buffer |-> [i \in 0..(num_fragments - 1) |-> <<>>]]

RECURSIVE ConcatFragments(_, _)
ConcatFragments(buffer, i) ==
    IF i \notin DOMAIN buffer THEN <<>>
    ELSE buffer[i] \o ConcatFragments(buffer, i + 1)

\* result "Err" (a FragmentError), "None" (incomplete or duplicate) or
\* "Some" (reassembly completed, payload holds the bytes)
handle_fragment(buf, fragment, cfg) ==
    LET created == IF BufExists(buf, fragment.sequence) THEN buf
                   ELSE BufInsert(buf, fragment.sequence,
                                  ReassemblyFragment(fragment.num_fragments))
        found == BufGet(created, fragment.sequence)
    IN  IF found = <<>>
        THEN [buf |-> created, result |-> "Err", payload |-> <<>>]
        ELSE LET entry == found[1]
             IN  IF \/ fragment.num_fragments # entry.num_fragments_total
                    \/ fragment.fragment_id >= entry.num_fragments_total
                    \/ fragment.num_fragments > cfg.max_fragments
                 THEN [buf |-> created, result |-> "Err", payload |-> <<>>]
                 ELSE IF fragment.fragment_id \in entry.received
                 THEN [buf |-> created, result |-> "None", payload |-> <<>>]
                 ELSE LET updated ==
                              [entry EXCEPT
                                  !.received = @ \cup {fragment.fragment_id},
                                  !.buffer[fragment.fragment_id] = fragment.payload]
                      IN  IF Cardinality(updated.received) = updated.num_fragments_total
                          THEN [buf |-> BufRemove(created, fragment.sequence),
                                result |-> "Some",
                                payload |-> ConcatFragments(updated.buffer, 0)]
                          ELSE [buf |-> BufSet(created, fragment.sequence, updated),
                                result |-> "None", payload |-> <<>>]

(***************************************************************************)
(* Records of the buffers.                                                 *)
(***************************************************************************)
SentPacket(size_bytes) == [ack |-> FALSE, size_bytes |-> size_bytes]

ReceivedPacket(size_bytes) == [size_bytes |-> size_bytes]

(***************************************************************************)
(* State.                                                                  *)
(***************************************************************************)
VARIABLES
    \* fields of RemoteConnection
    sequence,            \* u16: the next sequence to allocate
    channels,            \* channel id -> channel (HashMap<u8, Box<dyn Channel>>)
    channel_order,       \* the order in which the HashMap iterates its keys
    heartbeat_timer,
    timeout_timer,
    reassembly_buffer,
    sent_buffer,
    received_buffer,
    acks,                \* Vec<u16>: acked sequences not yet given to the channels
    network_info,
    \* environment
    now,                 \* the monotonic clock
    panicked,            \* a panic unwound out of an operation: the driver is gone
    \* observation of the run (read by the properties only)
    start,               \* the value of `sequence` the run started from
    nsends, nrecvs, nmsgs,
    ack_calls,           \* <<channel id, sequence>> -> number of process_ack calls
    ack_pushes,          \* sequence -> number of times it was pushed on acks
    recv_seen,           \* sequences of the inbound Normal / Fragment datagrams
    normal_seen,         \* sequences of the inbound Normal datagrams
    frag_bytes,          \* sequence -> sum of the payload lengths of its inbound fragments
    complete_seen,       \* sequences whose whole payload has arrived (Normal, or reassembled)
    last_inbound_at,     \* time of the last process_payload call (of new() before)
    last_valid_at,       \* time the last datagram was unwrapped and decoded, -1 before
    hb_reset_at,         \* time of the last heartbeat_timer.reset() (of new() before)
    last_hb_at,          \* time of the last Heartbeat transmission, -1 before
    last                 \* what the last operation did

conn == <<sequence, channels, channel_order, heartbeat_timer, timeout_timer,
          reassembly_buffer, sent_buffer, received_buffer, acks, network_info>>

obs == <<start, nsends, nrecvs, nmsgs, ack_calls, ack_pushes, recv_seen,
         normal_seen, frag_bytes, complete_seen, last_inbound_at, last_valid_at,
         hb_reset_at, last_hb_at, last>>

vars == <<conn, now, panicked, obs>>

(***************************************************************************)
(* Inputs.                                                                 *)
(***************************************************************************)
ChannelIds == {0, 1}

Messages == {7}

\* a connection that has been sending for a long time: the next allocation
\* is the last one before the 16-bit counter wraps
WrapStart == SeqMod - 1

\* the peer's sequences an inbound datagram may carry
InSeqs == IF start = 0 THEN {0, 2, 12} ELSE {SeqMod - 1, 0}

\* the ack data an inbound datagram may carry
InAcks ==
    { AckData(start, 1),
      AckData(WrappingAdd(start, 1), 3),
      AckData(WrappingAdd(start, 2), 5) }

\* payloads of inbound Normal packets: one entry for channel 0; an entry for
\* channel 1 followed by one for channel 0; bytes that do not decode
InPayloads == { <<0, 1, 7>>, <<1, 1, 8, 0, 1, 7>>, <<9>> }

\* the Fragment packets of the payload <<0, 2, 7, 8>> and a fragment whose id
\* is out of range
InFragments(seq, ack_data) ==
    { Fragment(seq, ack_data, 0, 2, <<0, 2>>),
      Fragment(seq, ack_data, 1, 2, <<7, 8>>),
      Fragment(seq, ack_data, 2, 2, <<7, 8>>) }

\* an inbound datagram: whether the security service unwraps it, whether the
\* unwrapped bytes decode to a packet, and the packet
Datagram(packet) == [unwrap_ok |-> TRUE, decode_ok |-> TRUE, packet |-> packet]

Rejected == [Datagram(HeartBeat(AckData(start, 1))) EXCEPT !.unwrap_ok = FALSE]

Undecodable == [Datagram(HeartBeat(AckData(start, 1))) EXCEPT !.decode_ok = FALSE]

\* the inbound datagrams of the receive path: Normal packets of every
\* sequence with every ack data, Normal packets of every payload, the
\* fragments of sequence 0, Heartbeats, Connection frames, and the two
\* datagrams that do not reach the match
Datagrams ==
    { Datagram(Normal(s, a, <<0, 1, 7>>)) : s \in InSeqs, a \in InAcks }
    \cup { Datagram(Normal(start, AckData(start, 1), p)) : p \in InPayloads }
    \cup { Datagram(f) : f \in InFragments(0, AckData(start, 1))
                            \cup InFragments(0, AckData(WrappingAdd(start, 1), 3)) }
    \cup { Datagram(HeartBeat(a)) : a \in InAcks }
    \cup { Datagram(Connection(e)) : e \in BOOLEAN }
    \cup { Rejected, Undecodable }

\* the inbound datagrams of the runs that follow the timers
FewDatagrams ==
    { Datagram(HeartBeat(AckData(start, 1))), Datagram(Connection(TRUE)), Rejected }

\* payloads handed to send_payload / generate_packets: a Normal packet, two
\* fragments, too many fragments, too large
OutPayloads ==
    { <<0, 1, 7>>, <<0, 2, 7, 8>>, <<0, 3, 7, 8, 7>>, <<0, 4, 7, 8, 7, 8>> }

\* a Normal packet, two fragments
FewPayloads == { <<0, 1, 7>>, <<0, 2, 7, 8>> }

\* what the security service and the socket do to the packets of one call:
\* nothing, ss_wrap fails on packet `at`, send_to fails on packet `at`
NoFault == [kind |-> "none", at |-> 0]

Faults ==
    { NoFault, [kind |-> "wrap", at |-> 1],
      [kind |-> "io", at |-> 1], [kind |-> "io", at |-> 2] }

(***************************************************************************)
(* What an operation did.                                                  *)
(***************************************************************************)
NoCall ==
    [op |-> "new", result |-> "Ok",
     sent |-> <<>>,          \* packets handed to socket.send_to, in order
     hb_reset |-> FALSE,     \* heartbeat_timer.reset() was called
     to_reset |-> FALSE,     \* timeout_timer.reset() was called
     packet |-> <<>>,        \* <<the decoded inbound packet>>
     payload_len |-> 0,      \* length of the payload given to send_payload
     expected_acks |-> {},   \* sequences the inbound ack data newly acknowledges
     marked |-> <<>>,        \* sequences update_acket_packets marked, in order
     dispatched |-> <<>>,    \* process_ack calls: <<channel id, sequence>>
     delivered |-> <<>>,     \* process_messages calls: ChannelPacketData
     allocated |-> <<>>,     \* <<the sequence generate_packets allocated>>
     tags |-> <<>>,          \* get_messages_to_send calls: <<channel id, sequence>>
     data |-> FALSE,         \* get_packet returned a payload
     hb_due |-> FALSE,       \* heartbeat_timer.is_finished() at the call
     since_hb_reset |-> 0,   \* time since the last heartbeat_timer.reset(), at the call
     prev_hb_at |-> -1]      \* time of the Heartbeat before this call's, -1 if none

(***************************************************************************)
(* Channel (the capability the connection drives).  The connection never   *)
(* looks inside a channel; this one queues what send_message gives it and  *)
(* hands out, oldest first, as many messages as fit the budget.            *)
(***************************************************************************)
NewChannel == [outbox |-> <<>>]

ChannelSendMessage(ch, message) == [ch EXCEPT !.outbox = Append(@, message)]

\* get_messages_to_send(budget_bytes, sequence): None when nothing is queued
ChannelGetMessagesToSend(ch, budget) ==
    LET k == Min(Len(ch.outbox), budget)
    IN  IF ch.outbox = <<>>
        THEN [some |-> FALSE, messages |-> <<>>, ch |-> ch]
        ELSE [some |-> TRUE, messages |-> SubSeq(ch.outbox, 1, k),
              ch |-> [ch EXCEPT !.outbox = SubSeq(@, k + 1, Len(@))]]

(***************************************************************************)
(* has_timed_out, build_heartbeat_packet                                   *)
(***************************************************************************)
has_timed_out == TimerIsFinished(timeout_timer, now)

build_heartbeat_packet ==
    LET a == AckBits(received_buffer)
    IN  HeartBeat(AckData(a.ack, a.ack_bits))

(***************************************************************************)
(* update_acket_packets                                                    *)
(***************************************************************************)
\* update_acket_packets without its guard: every named entry is pushed again
NotYetAckedUnguarded(sent_packet) == TRUE

\* if !sent_packet.ack
NotYetAcked(sent_packet) == ~sent_packet.ack

\* for i in 0..32 { if ack_bits & 1 != 0 { ... } ack_bits >>= 1; }
\* (once the shifted ack_bits is 0 the remaining iterations do nothing)
RECURSIVE AcketLoop(_, _, _, _, _)
AcketLoop(i, ack_bits, ack, sent, pending) ==
    IF i = AckBitsWidth \/ ack_bits = 0
    THEN [sent_buffer |-> sent, acks |-> pending]
    ELSE LET ack_sequence == WrappingSub(ack, i)
             found == BufGet(sent, ack_sequence)
             hit == /\ ack_bits % 2 # 0
                    /\ found # <<>>
                    /\ NotYetAcked(found[1])
         IN  AcketLoop(i + 1, ack_bits \div 2, ack,
                       IF hit THEN BufSet(sent, ack_sequence, [found[1] EXCEPT !.ack = TRUE])
                              ELSE sent,
                       IF hit THEN Append(pending, ack_sequence) ELSE pending)

update_acket_packets(sent, pending, ack, ack_bits) ==
    AcketLoop(0, ack_bits, ack, sent, pending)

(***************************************************************************)
(* process_payload                                                         *)
(***************************************************************************)
\* process_payload without its reset of the timeout timer
TimeoutTimerKept(dgram) == timeout_timer

\* self.timeout_timer.reset() as the first statement
TimeoutTimerOnInbound(dgram) == TimerReset(timeout_timer, now)

\* size recorded for a Fragment: `payload` there is the unwrapped datagram
\* (the `payload` of line 163), not fragment.payload
FragmentSizeBytes(packet) == SerializedLen(packet)

\* the match on the packet: the buffers after it, an early return if any,
\* and the payload to hand to the channels (<<bytes>>) or none (<<>>)
ProcessPacket(packet) ==
    LET acked == update_acket_packets(sent_buffer, acks,
                                      packet.ack_data.ack, packet.ack_data.ack_bits)
        base == [received_buffer |-> received_buffer,
                 sent_buffer |-> acked.sent_buffer,
                 acks |-> acked.acks,
                 reassembly_buffer |-> reassembly_buffer,
                 early |-> "", payload |-> <<>>]
    IN  CASE packet.type = "Normal" ->
                [base EXCEPT
                    !.received_buffer =
                        BufInsert(received_buffer, packet.sequence,
                                  ReceivedPacket(Len(packet.payload))),
                    !.payload = <<packet.payload>>]
          [] packet.type = "Fragment" ->
                LET found == BufGet(received_buffer, packet.sequence)
                    recv == IF found # <<>>
                            THEN BufSet(received_buffer, packet.sequence,
                                        [found[1] EXCEPT
                                            !.size_bytes = @ + FragmentSizeBytes(packet)])
                            ELSE BufInsert(received_buffer, packet.sequence,
                                           ReceivedPacket(FragmentSizeBytes(packet)))
                    h == handle_fragment(reassembly_buffer, packet, FragmentConfig)
                IN  [base EXCEPT
                        !.received_buffer = recv,
                        !.reassembly_buffer = h.buf,
                        !.early = IF h.result = "Err" THEN "Err:FragmentError" ELSE "",
                        !.payload = IF h.result = "Some" THEN <<h.payload>> ELSE <<>>]
          [] packet.type = "Heartbeat" -> base
          [] packet.type = "Connection" ->
                [base EXCEPT
                    !.sent_buffer = sent_buffer,
                    !.acks = acks,
                    !.early = IF packet.error THEN "Err:ConnectionError" ELSE ""]

\* the two loops nested the other way round: each channel is given all the
\* acks before the next channel gets any
DrainAcksPerChannel(pending, order) ==
    LET p == Len(pending)
    IN  IF p = 0 THEN <<>>
        ELSE [k \in 1..(p * Len(order)) |->
                 <<order[((k - 1) \div p) + 1], pending[((k - 1) % p) + 1]>>]

\* for ack in self.acks.drain(..) { for channel in self.channels.values_mut() {..} }
DrainAcks(pending, order) ==
    LET n == Len(order)
    IN  IF n = 0 THEN <<>>
        ELSE [k \in 1..(Len(pending) * n) |->
                 <<order[((k - 1) % n) + 1], pending[((k - 1) \div n) + 1]>>]

\* the tally `calls` with n more for key k
Count(calls, k, n) ==
    IF k \in DOMAIN calls THEN [calls EXCEPT ![k] = @ + n] ELSE calls @@ (k :> n)

RECURSIVE CountCalls(_, _)
CountCalls(calls, keys) ==
    IF keys = <<>> THEN calls
    ELSE CountCalls(Count(calls, Head(keys), 1), Tail(keys))

\* the routing loop leaving at the first unknown channel id (`break` for
\* `continue`): the entries before it
RECURSIVE RoutedEntriesUntilUnknown(_)
RoutedEntriesUntilUnknown(channel_packets) ==
    IF channel_packets = <<>> \/ Head(channel_packets).channel_id \notin DOMAIN channels
    THEN <<>>
    ELSE <<Head(channel_packets)>> \o RoutedEntriesUntilUnknown(Tail(channel_packets))

\* the entries of the payload whose channel is registered, in payload order
RoutedEntries(channel_packets) ==
    SelectSeq(channel_packets, LAMBDA e : e.channel_id \in DOMAIN channels)

\* the positions of the bits set in n, counted from position j
RECURSIVE SetBits(_, _)
SetBits(n, j) ==
    IF n = 0 \/ j = AckBitsWidth THEN {}
    ELSE (IF n % 2 = 1 THEN {j} ELSE {}) \cup SetBits(n \div 2, j + 1)

\* the sequences ack - i whose bit i is set and whose SentPacket is present
\* and not acked (read off the state before the call)
NewlyAcked(ack_data) ==
    { s \in { WrappingSub(ack_data.ack, i) : i \in SetBits(ack_data.ack_bits, 0) } :
        /\ BufExists(sent_buffer, s)
        /\ ~BufGet(sent_buffer, s)[1].ack }

ProcessPayload(dgram) ==
    /\ ~panicked
    /\ nrecvs < MaxRecv
    /\ nrecvs' = nrecvs + 1
    /\ timeout_timer' = TimeoutTimerOnInbound(dgram)
    /\ last_inbound_at' = now
    /\ last_valid_at' = IF dgram.unwrap_ok /\ dgram.decode_ok THEN now ELSE last_valid_at
    /\ UNCHANGED <<sequence, channels, channel_order, heartbeat_timer, network_info,
                   now, panicked, start, nsends, nmsgs, hb_reset_at, last_hb_at>>
    /\ LET call == [NoCall EXCEPT !.op = "process_payload", !.to_reset = TRUE]
       IN
       IF ~dgram.unwrap_ok THEN
            /\ last' = [call EXCEPT !.result = "Err:SecurityError"]
            /\ UNCHANGED <<reassembly_buffer, sent_buffer, received_buffer, acks,
                           ack_calls, ack_pushes, recv_seen, normal_seen, frag_bytes,
                   complete_seen>>
       ELSE IF ~dgram.decode_ok THEN
            /\ last' = [call EXCEPT !.result = "Err:SerializationFailed"]
            /\ UNCHANGED <<reassembly_buffer, sent_buffer, received_buffer, acks,
                           ack_calls, ack_pushes, recv_seen, normal_seen, frag_bytes,
                   complete_seen>>
       ELSE
         LET packet == dgram.packet
             m == ProcessPacket(packet)
             carries_acks == packet.type # "Connection"
             seen == IF packet.type \in {"Normal", "Fragment"}
                     THEN recv_seen \cup {packet.sequence} ELSE recv_seen
             dispatched == IF m.early # "" THEN <<>> ELSE DrainAcks(m.acks, channel_order)
             decoded == IF m.payload = <<>> THEN [ok |-> TRUE, value |-> <<>>]
                        ELSE DeserializeChannelPackets(m.payload[1])
             got == [call EXCEPT
                        !.packet = <<packet>>,
                        !.expected_acks = IF carries_acks
                                          THEN NewlyAcked(packet.ack_data) ELSE {},
                        !.marked = SubSeq(m.acks, Len(acks) + 1, Len(m.acks)),
                        !.dispatched = dispatched]
         IN  /\ received_buffer' = m.received_buffer
             /\ sent_buffer' = m.sent_buffer
             /\ reassembly_buffer' = m.reassembly_buffer
             /\ recv_seen' = seen
             /\ normal_seen' = IF packet.type = "Normal"
                                THEN normal_seen \cup {packet.sequence} ELSE normal_seen
             /\ complete_seen' = IF m.payload # <<>>
                                  THEN complete_seen \cup {packet.sequence}
                                  ELSE complete_seen
             /\ frag_bytes' = IF packet.type = "Fragment"
                               THEN Count(frag_bytes, packet.sequence, Len(packet.payload))
                               ELSE frag_bytes
             /\ ack_calls' = CountCalls(ack_calls, dispatched)
             /\ ack_pushes' = CountCalls(ack_pushes, got.marked)
             /\ IF m.early # "" THEN
                     /\ acks' = m.acks
                     /\ last' = [got EXCEPT !.result = m.early]
                ELSE /\ acks' = <<>>
                     /\ IF m.payload = <<>> THEN last' = got
                        ELSE IF ~decoded.ok
                        THEN last' = [got EXCEPT !.result = "Err:SerializationFailed"]
                        ELSE last' = [got EXCEPT
                                         !.delivered = RoutedEntries(decoded.value)]

(***************************************************************************)
(* generate_packets, send_payload                                          *)
(***************************************************************************)
\* ack data read off the wrong buffer
SentBufferAckData ==
    LET a == AckBits(sent_buffer)
    IN  AckData(a.ack, a.ack_bits)

\* let (ack, ack_bits) = self.received_buffer.ack_bits();
OutgoingAckData ==
    LET a == AckBits(received_buffer)
    IN  AckData(a.ack, a.ack_bits)

\* self.sequence += 1 on a u16: wraps when the build has no overflow checks
\* (release profile), panics when it has them (debug profile)
SequenceOverflows == sequence + 1 >= SeqMod

\* a size check placed after the allocation: the rejected call has consumed a
\* sequence
OversizeRejectedLate(unchanged) ==
    [unchanged EXCEPT !.result = "Err:MaximumPacketSizeExceeded",
                      !.sequence = WrappingAdd(sequence, 1)]

\* if payload.len() > self.config.max_packet_size { return Err(..); } is the
\* first statement: nothing has been assigned yet
OversizeRejected(unchanged) ==
    [unchanged EXCEPT !.result = "Err:MaximumPacketSizeExceeded"]

\* The outcome of generate_packets(payload) in the current state.
\* overflow_checks: whether the build checks arithmetic overflow.
generate_packets(payload, overflow_checks) ==
    LET unchanged == [result |-> "Ok", sequence |-> sequence,
                      sent_buffer |-> sent_buffer, packets |-> <<>>,
                      allocated |-> <<>>]
    IN  IF Len(payload) > max_packet_size
        THEN OversizeRejected(unchanged)
        ELSE IF SequenceOverflows /\ overflow_checks
        THEN [unchanged EXCEPT !.result = "panic:overflow"]
        ELSE LET seq == sequence
                 recorded == [unchanged EXCEPT
                                 !.sequence = WrappingAdd(sequence, 1),
                                 !.sent_buffer = BufInsert(sent_buffer, seq,
                                                           SentPacket(Len(payload))),
                                 !.allocated = <<seq>>]
             IN  IF Len(payload) > fragment_above
                 THEN LET f == build_fragments(payload, seq, OutgoingAckData,
                                               FragmentConfig)
                      IN  IF f.ok THEN [recorded EXCEPT !.packets = f.packets]
                          ELSE [recorded EXCEPT !.result = "Err:ExceededMaxFragments"]
                 ELSE [recorded EXCEPT
                          !.packets = <<Normal(seq, OutgoingAckData, payload)>>]

\* for reliable_packet in reliable_packets.iter() {
\*     ss_wrap(..).unwrap(); socket.send_to(..)?; }
\* the packets handed to send_to and how the loop ended
Transmit(packets, fault) ==
    IF fault.kind = "none" \/ fault.at > Len(packets)
    THEN [result |-> "Ok", sent |-> packets]
    ELSE IF fault.kind = "wrap"
    THEN [result |-> "panic:unwrap", sent |-> SubSeq(packets, 1, fault.at - 1)]
    ELSE [result |-> "Err:IO", sent |-> SubSeq(packets, 1, fault.at)]

Panics(result) == result \in {"panic:overflow", "panic:unwrap", "panic:expect"}

\* Result::unwrap(): an Err panics
Unwrap(result) ==
    IF result = "Ok" \/ Panics(result) THEN result ELSE "panic:unwrap"

\* the outcome of send_payload(payload, socket)
send_payload(payload, fault, overflow_checks) ==
    LET g == generate_packets(payload, overflow_checks)
        t == Transmit(g.packets, fault)
    IN  IF g.result # "Ok"
        THEN [g EXCEPT !.packets = <<>>] @@ [sent |-> <<>>]
        ELSE [g EXCEPT !.result = t.result] @@ [sent |-> t.sent]

OverflowChecks == IF SequenceOverflows THEN BOOLEAN ELSE {FALSE}

GeneratePackets(payload) ==
    /\ ~panicked
    /\ nsends < MaxSends
    /\ \E overflow_checks \in OverflowChecks :
         LET g == generate_packets(payload, overflow_checks)
         IN  /\ sequence' = g.sequence
             /\ sent_buffer' = g.sent_buffer
             /\ panicked' = Panics(g.result)
             /\ nsends' = nsends + Len(g.allocated)
             /\ last' = [NoCall EXCEPT
                            !.op = "generate_packets", !.result = g.result,
                            !.payload_len = Len(payload),
                            !.allocated = g.allocated]
    /\ UNCHANGED <<channels, channel_order, heartbeat_timer, timeout_timer,
                   reassembly_buffer, received_buffer, acks, network_info, now,
                   start, nrecvs, nmsgs, ack_calls, ack_pushes, recv_seen,
                   normal_seen, frag_bytes,
                   complete_seen, last_inbound_at, last_valid_at,
                   hb_reset_at, last_hb_at>>

SendPayload(payload, fault) ==
    /\ ~panicked
    /\ nsends < MaxSends
    /\ \E overflow_checks \in OverflowChecks :
         LET r == send_payload(payload, fault, overflow_checks)
         IN  /\ sequence' = r.sequence
             /\ sent_buffer' = r.sent_buffer
             /\ panicked' = Panics(r.result)
             /\ nsends' = nsends + Len(r.allocated)
             /\ last' = [NoCall EXCEPT
                            !.op = "send_payload", !.result = r.result,
                            !.payload_len = Len(payload),
                            !.sent = r.sent, !.allocated = r.allocated]
    /\ UNCHANGED <<channels, channel_order, heartbeat_timer, timeout_timer,
                   reassembly_buffer, received_buffer, acks, network_info, now,
                   start, nrecvs, nmsgs, ack_calls, ack_pushes, recv_seen,
                   normal_seen, frag_bytes,
                   complete_seen, last_inbound_at, last_valid_at,
                   hb_reset_at, last_hb_at>>

(***************************************************************************)
(* get_packet, send_packets                                                *)
(***************************************************************************)
\* for (channel_id, channel) in self.channels.iter_mut() { ... }
RECURSIVE PollChannels(_, _, _)
PollChannels(order, chs, channel_packets) ==
    IF order = <<>> THEN [channels |-> chs, channel_packets |-> channel_packets]
    ELSE LET channel_id == Head(order)
             got == ChannelGetMessagesToSend(chs[channel_id], max_packet_size)
         IN  PollChannels(Tail(order),
                          [chs EXCEPT ![channel_id] = got.ch],
                          IF got.some
                          THEN Append(channel_packets,
                                      ChannelPacketData(got.messages, channel_id))
                          ELSE channel_packets)

\* get_packet tagging the messages with the sequence after the one
\* send_payload is going to allocate
get_packet_tagging_next ==
    LET seq == WrappingAdd(sequence, 1)
        polled == PollChannels(channel_order, channels, <<>>)
    IN  [channels |-> polled.channels,
         channel_packets |-> polled.channel_packets,
         tags |-> [k \in 1..Len(channel_order) |-> <<channel_order[k], seq>>],
         payload |-> IF polled.channel_packets = <<>> THEN <<>>
                     ELSE <<SerializeChannelPackets(polled.channel_packets)>>]

\* payload is <<bytes>> (Some) or <<>> (None)
get_packet ==
    LET seq == sequence
        polled == PollChannels(channel_order, channels, <<>>)
    IN  [channels |-> polled.channels,
         channel_packets |-> polled.channel_packets,
         tags |-> [k \in 1..Len(channel_order) |-> <<channel_order[k], seq>>],
         payload |-> IF polled.channel_packets = <<>> THEN <<>>
                     ELSE <<SerializeChannelPackets(polled.channel_packets)>>]

\* send_packets without the timer test: a Heartbeat whenever there is no data
HeartbeatAlwaysDue == TRUE

\* else if self.heartbeat_timer.is_finished()
HeartbeatDue == TimerIsFinished(heartbeat_timer, now)

\* the heartbeat timer after a send_packets call that took the branch
\* (both branches reset it before transmitting)
HeartbeatTimerOnSend == TimerReset(heartbeat_timer, now)

SendPackets(fault) ==
    /\ ~panicked
    /\ LET gp == get_packet
           call == [NoCall EXCEPT !.op = "send_packets", !.tags = gp.tags,
                                  !.data = gp.payload # <<>>,
                                  !.hb_due = HeartbeatDue,
                                  !.since_hb_reset = now - hb_reset_at,
                                  !.prev_hb_at = last_hb_at]
       IN  /\ channels' = gp.channels
           /\ IF gp.payload # <<>> THEN
                  /\ nsends < MaxSends
                  /\ \E overflow_checks \in OverflowChecks :
                       LET r == send_payload(gp.payload[1], fault, overflow_checks)
                       IN  /\ heartbeat_timer' = HeartbeatTimerOnSend
                           /\ sequence' = r.sequence
                           /\ sent_buffer' = r.sent_buffer
                           /\ nsends' = nsends + Len(r.allocated)
                           \* send_payload(..).unwrap()
                           /\ panicked' = Panics(Unwrap(r.result))
                           /\ last' = [call EXCEPT
                                          !.result = Unwrap(r.result),
                                          !.payload_len = Len(gp.payload[1]),
                                          !.hb_reset = TRUE,
                                          !.sent = r.sent,
                                          !.allocated = r.allocated]
                           /\ hb_reset_at' = now
                           /\ UNCHANGED last_hb_at
              ELSE IF HeartbeatDue THEN
                  LET t == Transmit(<<build_heartbeat_packet>>, fault)
                  IN  /\ heartbeat_timer' = HeartbeatTimerOnSend
                      \* ss_wrap(..).unwrap(); send_to(..).unwrap()
                      /\ panicked' = Panics(Unwrap(t.result))
                      /\ last' = [call EXCEPT
                                     !.result = Unwrap(t.result),
                                     !.hb_reset = TRUE,
                                     !.sent = t.sent]
                      /\ hb_reset_at' = now
                      /\ last_hb_at' = IF t.sent # <<>> THEN now ELSE last_hb_at
                      /\ UNCHANGED <<sequence, sent_buffer, nsends>>
              ELSE
                  /\ last' = call
                  /\ UNCHANGED <<heartbeat_timer, sequence, sent_buffer, nsends,
                                 panicked, hb_reset_at, last_hb_at>>
    /\ UNCHANGED <<channel_order, timeout_timer, reassembly_buffer, received_buffer,
                   acks, network_info, now, start, nrecvs, nmsgs, ack_calls,
                   ack_pushes, recv_seen, normal_seen, frag_bytes,
                   complete_seen, last_inbound_at,
                   last_valid_at>>

(***************************************************************************)
(* add_channel, send_message                                               *)
(***************************************************************************)
\* the order in which the HashMap iterates once channel_id is inserted: any
RECURSIVE IterationOrders(_)
IterationOrders(ids) ==
    IF ids = {} THEN { <<>> }
    ELSE UNION { { <<x>> \o rest : rest \in IterationOrders(ids \ {x}) } : x \in ids }

AddChannel(channel_id) ==
    /\ ~panicked
    /\ last.op \in {"new", "add_channel"}
    /\ channel_id \notin DOMAIN channels
    /\ channels' = channels @@ (channel_id :> NewChannel)
    /\ channel_order' \in IterationOrders(DOMAIN channels \cup {channel_id})
    /\ last' = [NoCall EXCEPT !.op = "add_channel"]
    /\ UNCHANGED <<sequence, heartbeat_timer, timeout_timer, reassembly_buffer,
                   sent_buffer, received_buffer, acks, network_info, now, panicked,
                   start, nsends, nrecvs, nmsgs, ack_calls, ack_pushes, recv_seen,
                   normal_seen, frag_bytes,
                   complete_seen, last_inbound_at, last_valid_at,
                   hb_reset_at, last_hb_at>>

SendMessage(channel_id, message) ==
    /\ ~panicked
    /\ nmsgs < MaxMsgs
    /\ nmsgs' = nmsgs + 1
    /\ IF channel_id \in DOMAIN channels
       THEN /\ channels' = [channels EXCEPT
                               ![channel_id] = ChannelSendMessage(@, message)]
            /\ last' = [NoCall EXCEPT !.op = "send_message"]
            /\ UNCHANGED panicked
       \* .expect("Sending message to invalid channel")
       ELSE /\ panicked' = TRUE
            /\ last' = [NoCall EXCEPT !.op = "send_message",
                                       !.result = "panic:expect"]
            /\ UNCHANGED channels
    /\ UNCHANGED <<sequence, channel_order, heartbeat_timer, timeout_timer,
                   reassembly_buffer, sent_buffer, received_buffer, acks,
                   network_info, now, start, nsends, nrecvs, ack_calls, ack_pushes, recv_seen,
                   normal_seen, frag_bytes,
                   complete_seen, last_inbound_at, last_valid_at,
                   hb_reset_at, last_hb_at>>

(***************************************************************************)
(* update_network_info                                                     *)
(***************************************************************************)
RECURSIVE SumSizes(_, _)
SumSizes(buf, seqs) ==
    IF seqs = {} THEN 0
    ELSE LET s == CHOOSE x \in seqs : TRUE
         IN  BufGet(buf, s)[1].size_bytes + SumSizes(buf, seqs \ {s})

\* the sequences update_sent_bandwidth looks at
SentSample ==
    LET sample_size == sent_packets_buffer_size \div 4
        base_sequence == WrappingSub(BufSequence(sent_buffer), sample_size)
    IN  { WrappingAdd(base_sequence, i) : i \in 0..(sample_size - 1) }

update_sent_bandwidth ==
    LET counted == { s \in SentSample :
                       /\ BufExists(sent_buffer, s)
                       /\ BufGet(sent_buffer, s)[1].size_bytes # 0 }
    IN  [packets_dropped |-> Cardinality({ s \in counted :
                                             ~BufGet(sent_buffer, s)[1].ack }),
         bytes_sent |-> SumSizes(sent_buffer, counted)]

\* the sequences update_received_bandwidth looks at
ReceivedSample ==
    LET sample_size == received_packets_buffer_size \div 4
        base_sequence == WrappingAdd(WrappingSub(BufSequence(received_buffer),
                                                 sample_size), 1)
    IN  { WrappingAdd(base_sequence, i) : i \in 0..(sample_size - 1) }

update_received_bandwidth ==
    [bytes_received |->
        SumSizes(received_buffer,
                 { s \in ReceivedSample : BufExists(received_buffer, s) })]

UpdateNetworkInfo ==
    /\ ~panicked
    /\ network_info' = update_sent_bandwidth @@ update_received_bandwidth
    /\ last' = [NoCall EXCEPT !.op = "update_network_info"]
    /\ UNCHANGED <<sequence, channels, channel_order, heartbeat_timer,
                   timeout_timer, reassembly_buffer, sent_buffer, received_buffer,
                   acks, now, panicked, start, nsends, nrecvs, nmsgs, ack_calls,
                   ack_pushes, recv_seen, normal_seen, frag_bytes,
                   complete_seen, last_inbound_at,
                   last_valid_at, hb_reset_at, last_hb_at>>

(***************************************************************************)
(* The clock.                                                              *)
(***************************************************************************)
Tick ==
    /\ ~panicked
    /\ now < MaxTime
    /\ now' = now + 1
    /\ last' = [NoCall EXCEPT !.op = "tick"]
    /\ UNCHANGED <<conn, panicked, start, nsends, nrecvs, nmsgs, ack_calls,
                   ack_pushes, recv_seen, normal_seen, frag_bytes,
                   complete_seen, last_inbound_at,
                   last_valid_at, hb_reset_at, last_hb_at>>

(***************************************************************************)
(* Initial states.  InitAt(0) is the connection new() returns.             *)
(* InitAt(WrapStart) is a connection that has allocated WrapStart          *)
(* sequences without ever being acked and has just received the peer's     *)
(* sequence WrapStart.                                                     *)
(***************************************************************************)
RECURSIVE InsertRun(_, _, _, _)
InsertRun(buf, seq, count, v) ==
    IF count = 0 THEN buf
    ELSE InsertRun(BufInsert(buf, seq, v), WrappingAdd(seq, 1), count - 1, v)

InitAt(first) ==
    /\ start = first
    /\ sequence = first
    /\ channels = <<>>
    /\ channel_order = <<>>
    /\ heartbeat_timer = TimerNew(heartbeat_time, 0)
    /\ timeout_timer = TimerNew(timeout_duration, 0)
    /\ reassembly_buffer = WithCapacity(reassembly_buffer_size)
    /\ sent_buffer =
          IF first = 0 THEN WithCapacity(sent_packets_buffer_size)
          ELSE InsertRun([WithCapacity(sent_packets_buffer_size)
                             EXCEPT !.sequence =
                                 WrappingSub(first, sent_packets_buffer_size + 1)],
                         WrappingSub(first, sent_packets_buffer_size),
                         sent_packets_buffer_size, SentPacket(3))
    /\ received_buffer =
          IF first = 0 THEN WithCapacity(received_packets_buffer_size)
          ELSE BufInsert([WithCapacity(received_packets_buffer_size)
                             EXCEPT !.sequence = WrappingSub(first, 1)],
                         first, ReceivedPacket(3))
    /\ acks = <<>>
    /\ network_info = [packets_dropped |-> 0, bytes_sent |-> 0, bytes_received |-> 0]
    /\ now = 0
    /\ panicked = FALSE
    /\ nsends = 0
    /\ nrecvs = 0
    /\ nmsgs = 0
    /\ ack_calls = <<>>
    /\ ack_pushes = <<>>
    /\ recv_seen = IF first = 0 THEN {} ELSE {first}
    /\ normal_seen = recv_seen
    /\ frag_bytes = <<>>
    /\ complete_seen = recv_seen
    /\ last_inbound_at = 0
    /\ last_valid_at = -1
    /\ hb_reset_at = 0
    /\ last_hb_at = -1
    /\ last = NoCall

Init == InitAt(0)

InitAnyAge == InitAt(0) \/ InitAt(WrapStart)

\* every operation, one channel and few inputs: the timers
Next ==
    \/ AddChannel(0)
    \/ SendMessage(0, 7)
    \/ \E fault \in Faults : SendPackets(fault)
    \/ \E fault \in Faults : SendPayload(<<0, 1, 7>>, fault)
    \/ GeneratePackets(<<0, 1, 7>>)
    \/ \E dgram \in FewDatagrams : ProcessPayload(dgram)
    \/ UpdateNetworkInfo
    \/ Tick

Spec == Init /\ [][Next]_vars

\* the send path: both channels, every payload, every fault
NextSend ==
    \/ \E channel_id \in ChannelIds : AddChannel(channel_id)
    \/ \E channel_id \in ChannelIds, message \in Messages :
          SendMessage(channel_id, message)
    \/ \E fault \in Faults : SendPackets(fault)
    \/ \E payload \in OutPayloads, fault \in Faults : SendPayload(payload, fault)
    \/ \E payload \in OutPayloads : GeneratePackets(payload)
    \/ UpdateNetworkInfo

SpecSend == InitAnyAge /\ [][NextSend]_vars

\* the receive path: every inbound datagram, against what send_payload sent
NextReceive ==
    \/ \E channel_id \in ChannelIds : AddChannel(channel_id)
    \/ \E payload \in FewPayloads : SendPayload(payload, NoFault)
    \/ \E dgram \in Datagrams : ProcessPayload(dgram)

SpecReceive == InitAnyAge /\ [][NextReceive]_vars

(***************************************************************************)
(* Properties.                                                             *)
(***************************************************************************)
Range(f) == { f[k] : k \in DOMAIN f }

\* the sequences an (ack, ack_bits) pair names
NamedSequences(ack_data) ==
    { WrappingSub(ack_data.ack, i) : i \in SetBits(ack_data.ack_bits, 0) }

\* the last operation was a process_payload whose datagram carried ack data
AckDataProcessed ==
    /\ last.op = "process_payload"
    /\ last.packet # <<>>
    /\ last.packet[1].type # "Connection"

SentEntries == { sent_buffer.slots[i][1] :
                   i \in { j \in DOMAIN sent_buffer.slots : sent_buffer.slots[j] # <<>> } }

\* C1: process_ack(s) reaches a channel at most once for any sequence s, however
\* many inbound datagrams ack s: every SentPacket with ack = true has pushed its
\* sequence on acks exactly once, and one with ack = false never has (the flag
\* does not revert).
C1_AtMostOnceAckDispatch ==
    /\ \A k \in DOMAIN ack_calls : ack_calls[k] <= 1
    /\ \A s \in DOMAIN ack_pushes : ack_pushes[s] <= 1
    /\ \A e \in SentEntries :
          IF e.value.ack THEN e.seq \in DOMAIN ack_pushes
                         ELSE e.seq \notin DOMAIN ack_pushes

\* a datagram acks again a sequence the channels were already told about
C1_Witness ==
    /\ AckDataProcessed
    /\ \E k \in DOMAIN ack_calls :
          /\ k[2] \in NamedSequences(last.packet[1].ack_data)
          /\ k[2] \notin last.expected_acks
          /\ <<k[1], k[2]>> \notin Range(last.dispatched)

\* C2: a process_payload call whose datagram carries (ack, ack_bits) calls
\* process_ack(s) on every registered channel for exactly the sequences
\* s = ack - i whose bit i is set and whose SentPacket is present and not yet
\* acked, once each.
C2_ExactAckDispatch ==
    AckDataProcessed =>
        /\ Range(last.dispatched) = (DOMAIN channels) \X last.expected_acks
        /\ Len(last.dispatched)
              = Cardinality(DOMAIN channels) * Cardinality(last.expected_acks)

\* C3: successful allocations are start, start + 1, ... modulo 2^16, and the
\* allocation of 65535 is followed by that of 0: no send operation ends in an
\* overflow of the counter.
C3_SequenceWraps ==
    /\ sequence = WrappingAdd(start, nsends)
    /\ last.allocated # <<>> => last.allocated[1] = WrappingAdd(start, nsends - 1)
    /\ last.result # "panic:overflow"

\* C4: when a process_payload call returns, with Ok or with an error, acks is
\* empty and every sequence the call marked acked was given to process_ack on
\* every channel within the call.
C4_AcksDrained ==
    last.op = "process_payload" =>
        /\ acks = <<>>
        /\ \A s \in Range(last.marked), c \in DOMAIN channels :
              <<c, s>> \in Range(last.dispatched)

\* the most recent of a set of sequences under the wrapping order
MostRecent(seqs) ==
    CHOOSE a \in seqs : \A b \in seqs : ~SequenceGreaterThan(b, a)

RECURSIVE MaskOf(_)
MaskOf(positions) ==
    IF positions = {} THEN 0
    ELSE LET i == CHOOSE x \in positions : TRUE
         IN  2 ^ i + MaskOf(positions \ {i})

\* the ack data the datagrams received so far call for: ack is the most recent
\* inbound sequence, bit i is set iff ack - i was received and lies in the
\* window of received_packets_buffer_size sequences ending at ack
ReceivedAckData ==
    IF recv_seen = {} THEN AckData(0, 0)
    ELSE LET ack == MostRecent(recv_seen)
         IN  AckData(ack,
                     MaskOf({ i \in 0..(AckBitsWidth - 1) :
                                /\ i < received_packets_buffer_size
                                /\ WrappingSub(ack, i) \in recv_seen }))

\* C5: every Normal and Fragment packet a send operation hands to the socket,
\* and the Heartbeat packet build_heartbeat_packet builds, carries the ack data
\* of the datagrams received so far.
C5_OutgoingAckData ==
    /\ \A k \in DOMAIN last.sent : last.sent[k].ack_data = ReceivedAckData
    /\ build_heartbeat_packet.ack_data = ReceivedAckData

\* the fragments of a payload sent after the peer's sequences wrapped carry
\* ack = 0 with the bits of 0 and 65535
C5_Witness ==
    /\ last.op = "send_payload"
    /\ Len(last.sent) = 2
    /\ last.sent[1].type = "Fragment"
    /\ last.sent[1].ack_data = AckData(0, 3)
    /\ recv_seen = {SeqMod - 1, 0}

\* C6: for a sequence s that arrived in Fragment datagrams only,
\* received_buffer[s].size_bytes is the sum of the payload lengths of the
\* fragments processed so far.
C6_FragmentSizeBytes ==
    \A s \in (DOMAIN frag_bytes) \ normal_seen :
        BufExists(received_buffer, s) =>
            BufGet(received_buffer, s)[1].size_bytes = frag_bytes[s]

SendSideOps ==
    {"send_message", "send_packets", "send_payload", "generate_packets",
     "update_network_info"}

\* C7: has_timed_out() is true whenever timeout_duration has elapsed since the
\* last process_payload call, false for timeout_duration after a valid
\* datagram was processed, and no send-side operation nor update_network_info
\* changes the timeout timer.
C7_Timeout ==
    /\ [](/\ now - last_inbound_at >= timeout_duration => has_timed_out
          /\ (last_valid_at >= 0 /\ now - last_valid_at < timeout_duration)
                => ~has_timed_out)
    /\ [][last'.op \in SendSideOps => timeout_timer' = timeout_timer]_vars

\* the connection times out after a datagram was processed, and a send-side
\* operation has run since
C7_Witness ==
    /\ has_timed_out
    /\ last_valid_at >= 1
    /\ last.op = "send_packets"

\* C8: a process_payload call whose unwrap fails leaves the timeout timer and
\* the rest of the connection unchanged.
C8_RejectedDatagramNoEffect ==
    [][(last'.op = "process_payload" /\ last'.result = "Err:SecurityError")
          => UNCHANGED conn]_vars

HeartbeatSent == \E k \in DOMAIN last.sent : last.sent[k].type = "Heartbeat"

\* C9: a send_packets call (the security service and the socket not failing)
\* sends a Heartbeat iff no channel produced data and heartbeat_time has
\* elapsed since the heartbeat timer was last reset; sending it resets the
\* timer, two Heartbeats are at least heartbeat_time apart, and a call that
\* has data sends no Heartbeat.
C9_HeartbeatLiveness ==
    last.op = "send_packets" =>
        /\ HeartbeatSent =>
              /\ ~last.data
              /\ last.since_hb_reset >= heartbeat_time
              /\ Len(last.sent) = 1
              /\ heartbeat_timer.deadline = now + heartbeat_time
              /\ last.prev_hb_at >= 0 => now - last.prev_hb_at >= heartbeat_time
        /\ (last.result = "Ok" /\ ~last.data /\ last.since_hb_reset >= heartbeat_time)
              => HeartbeatSent

\* a second Heartbeat goes out
C9_Witness ==
    /\ last.op = "send_packets"
    /\ last.result = "Ok"
    /\ HeartbeatSent
    /\ last.prev_hb_at >= 0

PublicOps ==
    {"send_packets", "send_payload", "generate_packets", "process_payload",
     "send_message", "update_network_info"}

\* C10: an operation resets the heartbeat timer exactly when it hands at least
\* one datagram to the socket.
C10_HeartbeatResetIffSent ==
    last.op \in PublicOps => (last.hb_reset <=> last.sent # <<>>)

\* C11: a send_payload or generate_packets call rejected with
\* MaximumPacketSizeExceeded transmits nothing and leaves sequence, sent_buffer,
\* received_buffer, acks, both timers and the rest of the connection as they
\* were, so the next accepted payload gets the sequence it would have got
\* without the rejected call.
C11_OversizeRejectedNoEffect ==
    /\ [][(/\ last'.op \in {"send_payload", "generate_packets"}
           /\ last'.result = "Err:MaximumPacketSizeExceeded")
              => (UNCHANGED <<conn, panicked, nsends>> /\ last'.sent = <<>>)]_vars
    /\ [](panicked \/ sequence = WrappingAdd(start, nsends))

\* an oversize payload is rejected on a connection that has sent before
C11_Witness ==
    /\ last.op = "send_payload"
    /\ last.result = "Err:MaximumPacketSizeExceeded"
    /\ last.payload_len > max_packet_size
    /\ nsends >= 1
    /\ BufExists(sent_buffer, start)

\* C12: no failure on the send path of send_packets or send_payload (oversize
\* payload, fragmentation failure, wrap failure, socket error) panics: the call
\* returns an error value, for a data packet and for a Heartbeat alike.
C12_SendFailuresSurfaced ==
    last.op \in {"send_packets", "send_payload"} => last.result # "panic:unwrap"

\* C13: the channels honouring their budgets, the payload get_packet assembles
\* is at most max_packet_size bytes long, so the send_payload call of
\* send_packets is not rejected with MaximumPacketSizeExceeded.
C13_PayloadWithinMaxPacketSize ==
    (last.op = "send_packets" /\ last.data) =>
        /\ last.payload_len <= max_packet_size
        /\ last.allocated # <<>> \/ last.result = "panic:overflow"

\* C15: get_packet polls the registered channels in ascending channel-id order,
\* whatever the order in which they were added, and lists their entries in
\* that order.
C15_AscendingPollOrder ==
    last.op = "send_packets" =>
        \A j, k \in DOMAIN last.tags : j < k => last.tags[j][1] < last.tags[k][1]

\* the unacked entries of sent_buffer among the sample_size sequences that end
\* at, and include, the most recently sent one
UnackedInLatestSample ==
    LET sample_size == sent_packets_buffer_size \div 4
        head == BufSequence(sent_buffer)
    IN  { s \in { WrappingSub(head, i) : i \in 0..(sample_size - 1) } :
            /\ BufExists(sent_buffer, s)
            /\ ~BufGet(sent_buffer, s)[1].ack }

\* C17: update_sent_bandwidth sets packets_dropped to the number of unacked
\* entries among the sequences head - sample_size + 1 .. head of sent_buffer,
\* the most recently sent packet included.
C17_SentSampleEndsAtHead ==
    last.op = "update_network_info" =>
        network_info.packets_dropped = Cardinality(UnackedInLatestSample)

\* C20: a send_payload or generate_packets call that fails with
\* ExceededMaxFragments consumes no sequence number and records no SentPacket.
C20_FragmentFailureNoEffect ==
    [][last'.result = "Err:ExceededMaxFragments"
          => UNCHANGED <<sequence, sent_buffer>>]_vars

\* C18: in a send_packets call that transmits data, the sequence given to every
\* channel's get_messages_to_send is the one send_payload allocates, records in
\* sent_buffer and writes into the Normal or Fragment packets it transmits; a
\* call in which no channel has messages consumes no sequence.
C18_SequenceTagConsistency ==
    /\ [](last.op = "send_packets" =>
            /\ last.allocated # <<>> =>
                  /\ \A k \in DOMAIN last.tags : last.tags[k][2] = last.allocated[1]
                  /\ \A k \in DOMAIN last.sent :
                        last.sent[k].sequence = last.allocated[1]
                  /\ BufExists(sent_buffer, last.allocated[1])
            /\ (last.data /\ last.sent # <<>>) => last.allocated # <<>>
            /\ ~last.data => last.allocated = <<>>)
    /\ [][(last'.op = "send_packets" /\ ~last'.data)
              => UNCHANGED <<sequence, sent_buffer>>]_vars

\* two channels are polled and their messages leave as the fragments of the
\* second sequence of the connection
C18_Witness ==
    /\ last.op = "send_packets"
    /\ Len(last.tags) = 2
    /\ Len(last.sent) = 2
    /\ last.sent[1].type = "Fragment"
    /\ last.allocated = <<WrappingAdd(start, 1)>>

\* C14: the sequences one datagram newly acks are appended to acks in order of
\* increasing bit index (ack, ack - 1, ack - 2, ...), and process_ack is
\* delivered in that order, all channels being told of one sequence before
\* any channel is told of the next.
C14_AckOrdering ==
    AckDataProcessed =>
        LET ack == last.packet[1].ack_data.ack
            m == last.marked
            d == last.dispatched
            n == Cardinality(DOMAIN channels)
        IN  /\ \A j, k \in DOMAIN m :
                  j < k => WrappingSub(ack, m[j]) < WrappingSub(ack, m[k])
            /\ (n > 0 /\ m # <<>> /\ last.result # "Err:FragmentError") => d # <<>>
            /\ d # <<>> =>
                  LET q == Len(d) \div n
                  IN  /\ Len(d) = q * n
                      /\ q >= Len(m)
                      /\ \A b \in 0..(q - 1) :
                            /\ \A c \in 1..n : d[b * n + c][2] = d[b * n + 1][2]
                            /\ { d[b * n + c][1] : c \in 1..n } = DOMAIN channels
                      /\ \A j \in DOMAIN m :
                            d[(q - Len(m) + j - 1) * n + 1][2] = m[j]

\* one datagram acks two sequences on a connection with two channels
C14_Witness ==
    /\ AckDataProcessed
    /\ last.marked = <<WrappingAdd(start, 1), start>>
    /\ Len(last.dispatched) = 4
    /\ Cardinality(DOMAIN channels) = 2

\* the entries of an inbound Normal packet, <<>> if its payload does not decode
InboundEntries(packet) ==
    LET decoded == DeserializeChannelPackets(packet.payload)
    IN  IF decoded.ok THEN decoded.value ELSE <<>>

KnownEntries(packet) ==
    SelectSeq(InboundEntries(packet), LAMBDA e : e.channel_id \in DOMAIN channels)

\* a Normal packet was processed whose payload decodes and names a channel
\* that is not registered
UnknownEntrySkipped(call) ==
    /\ call.op = "process_payload"
    /\ call.packet # <<>>
    /\ call.packet[1].type = "Normal"
    /\ DeserializeChannelPackets(call.packet[1].payload).ok
    /\ KnownEntries(call.packet[1]) # InboundEntries(call.packet[1])

C19_AckAfterCompletePayload ==
    recv_seen # {} => NamedSequences(OutgoingAckData) \subseteq complete_seen

====
